---- MODULE Spec2Model ----
(***************************************************************************)
(* whichlas.py: which LAS tiles of a shapefile index cover a bounding box  *)
(* or a CSV of points.  One run of main() is modelled as a state machine:  *)
(* parse_args, the shapefile existence test, build_query_geometry, the     *)
(* preview exit, opening the index, the per-record scan loop, the          *)
(* zero-match exit, the statistics, the map generation and write_output.   *)
(*                                                                         *)
(* Python strings are sequences of code points, so that lower(), upper(),  *)
(* startswith() and the ordering used by sorted() are computed.            *)
(* Coordinates are whole units; buffer radii are in thousandths of a unit  *)
(* (Point.buffer(0.001) has radius 1).  An optional value is <<>> (None)   *)
(* or <<v>>.                                                               *)
(***************************************************************************)
EXTENDS Integers, Sequences, FiniteSets, TLC

\* ----------------------------------------------------------------- bounds
\* longest tile index (number of records) the model enumerates
MaxTiles == 3
\* most rows of a CSV point file the model enumerates
MaxPts == 2

\* ------------------------------------------------------------ py values
None == <<>>
Some(v) == <<v>>
Val(o) == o[1]

\* str.lower() / str.upper(), per code point (ASCII letters)
lower(s) == [k \in 1..Len(s) |-> IF s[k] >= 65 /\ s[k] <= 90 THEN s[k] + 32 ELSE s[k]]
upper(s) == [k \in 1..Len(s) |-> IF s[k] >= 97 /\ s[k] <= 122 THEN s[k] - 32 ELSE s[k]]
startswith(s, p) == Len(s) >= Len(p) /\ SubSeq(s, 1, Len(p)) = p

\* Python's str.__lt__: the first differing code point decides, a proper
\* prefix is smaller
RECURSIVE StrLess(_, _)
StrLess(a, b) ==
    IF b = <<>> THEN FALSE
    ELSE IF a = <<>> THEN TRUE
    ELSE IF Head(a) # Head(b) THEN Head(a) < Head(b)
    ELSE StrLess(Tail(a), Tail(b))

\* set(hits)
SetOf(seq) == {seq[k] : k \in 1..Len(seq)}

\* sorted(S) for a set of strings: ascending by StrLess
RECURSIVE sorted(_)
sorted(S) ==
    IF S = {} THEN <<>>
    ELSE LET m == CHOOSE x \in S : \A y \in S : y = x \/ StrLess(x, y)
         IN <<m>> \o sorted(S \ {m})

\* ---------------------------------------------------------- the strings
\* "EPSG:4326", "epsg:4326", "EPSG:2263" and an unresolvable "XY"
EPSG4326  == <<69, 80, 83, 71, 58, 52, 51, 50, 54>>
epsg4326  == <<101, 112, 115, 103, 58, 52, 51, 50, 54>>
EPSG2263  == <<69, 80, 83, 71, 58, 50, 50, 54, 51>>
BogusCRS  == <<88, 89>>
\* "file"
FilePrefix == <<102, 105, 108, 101>>
\* schema field names "ID", "File", "file2", "afile", "fil"
F_ID    == <<73, 68>>
F_File  == <<70, 105, 108, 101>>
F_file2 == <<102, 105, 108, 101, 50>>
F_afile == <<97, 102, 105, 108, 101>>
F_fil   == <<102, 105, 108>>
\* CSV column names "lon", "longitude", "x", "lng", "lat", "latitude", "y",
\* "X", "Lat", "name"
c_lon == <<108, 111, 110>>
c_longitude == <<108, 111, 110, 103, 105, 116, 117, 100, 101>>
c_x == <<120>>
c_lng == <<108, 110, 103>>
c_lat == <<108, 97, 116>>
c_latitude == <<108, 97, 116, 105, 116, 117, 100, 101>>
c_y == <<121>>
c_X == <<88>>
c_Lat == <<76, 97, 116>>
c_name == <<110, 97, 109, 101>>
\* tile file names "a", "ab", "b", "c", "B" ("B" < "a" < "ab" < "b" < "c")
n_a  == <<97>>
n_ab == <<97, 98>>
n_b  == <<98>>
n_c  == <<99>>
n_B  == <<66>>

\* ------------------------------------------------------------- geometry
Max(a, b) == IF a >= b THEN a ELSE b

\* shapely box(minx, miny, maxx, maxy); r is the radius of a buffer around
\* it, in thousandths
box(minx, miny, maxx, maxy) ==
    [kind |-> "box", minx |-> minx, miny |-> miny, maxx |-> maxx, maxy |-> maxy, r |-> 0]

\* Point(x, y).buffer(0.001): the disk of radius 1/1000 around the point
PointBuffer(p) ==
    [kind |-> "box", minx |-> p[1], miny |-> p[2], maxx |-> p[1], maxy |-> p[2], r |-> 1]

\* geom.buffer(d), d in whole units: every point within d of the box
buffer(g, d) == [g EXCEPT !.r = @ + 1000 * d]

\* unary_union(pts + [path]).convex_hull: the convex hull of the points
convex_hull(pts) == [kind |-> "hull", pts |-> SetOf(pts)]

\* gap between the intervals [a1, a2] and [b1, b2] (0 when they meet)
Gap(a1, a2, b1, b2) == Max(0, Max(b1 - a2, a1 - b2))

\* the four corners of a tile rectangle
Corners(t) == {<<t.minx, t.miny>>, <<t.minx, t.maxy>>, <<t.maxx, t.miny>>, <<t.maxx, t.maxy>>}

\* the closed intervals {n . p : p \in P} and {n . q : q \in Q} are apart
Separated(n, P, Q) ==
    LET dot(p) == n[1] * p[1] + n[2] * p[2]
    IN  \/ \A p \in P, q \in Q : dot(p) < dot(q)
        \/ \A p \in P, q \in Q : dot(q) < dot(p)

\* g.intersects(query_geom) for a tile rectangle t; touching boundaries
\* intersect.  A buffered box meets t iff their distance is at most r; two
\* convex sets are disjoint iff an edge normal of either separates them.
intersects(t, g) ==
    IF g.kind = "box"
    THEN LET dx == Gap(t.minx, t.maxx, g.minx, g.maxx)
             dy == Gap(t.miny, t.maxy, g.miny, g.maxy)
         IN  dx * dx + dy * dy <= (g.r * g.r) \div 1000000
    ELSE LET axes == {<<1, 0>>, <<0, 1>>}
                     \cup {<<q[2] - p[2], p[1] - q[1]>> : p \in g.pts, q \in g.pts}
         IN  ~ \E n \in axes : Separated(n, Corners(t), g.pts)

\* area of a (buffered) box in thousandths of a square unit; the rounded
\* corners are shapely's 32-gon, area 3.121 r^2
area(g) ==
    LET w == g.maxx - g.minx
        h == g.maxy - g.miny
    IN  1000 * w * h + 2 * g.r * (w + h) + (((g.r * g.r) \div 1000) * 3121) \div 1000

\* area of unary_union(geoms) in square units: the unit cells covered by
\* some footprint (footprints have whole corners)
union_area(geoms) ==
    IF geoms = <<>> THEN 0
    ELSE LET G  == SetOf(geoms)
             x0 == CHOOSE v \in {g.minx : g \in G} : \A g \in G : v <= g.minx
             x1 == CHOOSE v \in {g.maxx : g \in G} : \A g \in G : v >= g.maxx
             y0 == CHOOSE v \in {g.miny : g \in G} : \A g \in G : v <= g.miny
             y1 == CHOOSE v \in {g.maxy : g \in G} : \A g \in G : v >= g.maxy
         IN  Cardinality({c \in (x0..(x1 - 1)) \X (y0..(y1 - 1)) :
                 \E g \in G : /\ g.minx <= c[1] /\ c[1] + 1 <= g.maxx
                              /\ g.miny <= c[2] /\ c[2] + 1 <= g.maxy})

\* --------------------------------------------------------- command line
\* a string argument is given and non-empty (Python truthiness)
Truthy(o) == o # None /\ Val(o) # <<>>

\* "p.csv"
p_csv == <<112, 46, 99, 115, 118>>

\* sample values of --minx/--maxx and --miny/--maxy: 181 and 91 are outside
\* the WGS84 ranges
XVals == {0, 1, 181}
YVals == {0, 1, 91}
Opt(S) == {None} \cup {Some(v) : v \in S}

\* a command line
Argv(csv, cols, x0, y0, x1, y1, b, c) ==
    [csv |-> csv, csvx |-> cols[1], csvy |-> cols[2], minx |-> x0, miny |-> y0,
     maxx |-> x1, maxy |-> y1, buffer |-> b, input_crs |-> c]

\* the command lines: bbox invocations (any subset of the four bounds), CSV
\* invocations (plain, with explicit columns, with stray bbox options, with
\* --minx as well) and --csv "" invocations
Argvs ==
    {Argv(None, <<None, None>>, x0, y0, x1, y1, b, c) :
        x0 \in Opt(XVals), y0 \in Opt(YVals), x1 \in Opt(XVals), y1 \in Opt(YVals),
        b \in {0, 1}, c \in {EPSG4326, epsg4326, EPSG2263, BogusCRS}}
    \cup
    {Argv(Some(p_csv), <<None, None>>, None, None, None, None, 0, c) :
        c \in {EPSG4326, EPSG2263, BogusCRS}}
    \cup
    {Argv(Some(p_csv), <<Some(c_lat), Some(c_lon)>>, None, None, None, None, 0, EPSG4326),
     Argv(Some(p_csv), <<None, None>>, None, Some(1), Some(1), Some(1), 0, EPSG4326),
     Argv(Some(p_csv), <<None, None>>, Some(0), Some(0), Some(1), Some(1), 0, EPSG4326),
     Argv(Some(p_csv), <<None, None>>, Some(0), None, None, None, 0, EPSG4326)}
    \cup
    {Argv(Some(<<>>), <<None, None>>, None, rest, rest, rest, 0, c) :
        rest \in {None, Some(1)}, c \in {EPSG4326, EPSG2263}}

\* parse_args without the mutually exclusive group: --csv and --minx may be
\* given together
parse_args_NoGroup(argv) ==
    IF argv.csv = None /\ argv.minx = None THEN "one of the arguments is required"
    ELSE ""

\* argparse: --csv and --minx form a required mutually exclusive group
\* (a given option is one whose value is not None); "" when accepted
parse_args(argv) ==
    IF argv.csv # None /\ argv.minx # None THEN "not allowed with argument"
    ELSE IF argv.csv = None /\ argv.minx = None THEN "one of the arguments is required"
    ELSE ""

\* ------------------------------------------------------ the points file
\* sequences over S of length lo..hi
SeqsOf(S, lo, hi) == UNION {[1..n -> S] : n \in lo..hi}

\* a row of the CSV: the values of its first and second column (None: NaN)
RowVals == {<<Some(0), Some(0)>>, <<Some(1), Some(1)>>, <<Some(181), Some(0)>>,
            <<None, Some(0)>>}

\* what the CSV path may name on disk
CsvFiles ==
    {[exists |-> FALSE, readable |-> FALSE, columns |-> <<>>, rows |-> <<>>],
     [exists |-> TRUE, readable |-> FALSE, columns |-> <<>>, rows |-> <<>>],
     [exists |-> TRUE, readable |-> TRUE, columns |-> <<c_lon, c_lat>>, rows |-> <<>>],
     [exists |-> TRUE, readable |-> TRUE, columns |-> <<c_name, c_y>>,
      rows |-> << <<Some(0), Some(0)>> >>]}
    \cup
    {[exists |-> TRUE, readable |-> TRUE, columns |-> cols, rows |-> rows] :
        cols \in {<<c_lon, c_lat>>, <<c_X, c_Lat>>},
        rows \in SeqsOf(RowVals, 1, MaxPts)}

\* df[col] of one row; a column the file lacks is a KeyError (None here)
ColIndex(f, col) ==
    IF \E k \in 1..Len(f.columns) : f.columns[k] = col
    THEN Some(CHOOSE k \in 1..Len(f.columns) : f.columns[k] = col)
    ELSE None

\* next((c for c in df.columns if c.lower() in names), None)
DetectColumn(f, names) ==
    LET ks == {k \in 1..Len(f.columns) : lower(f.columns[k]) \in names}
    IN  IF ks = {} THEN None
        ELSE Some(f.columns[CHOOSE k \in ks : \A j \in ks : k <= j])

\* ---------------------------------------------------------- validation
LonMax == 180
LatMax == 90

\* validate_coordinates(x, y, crs): "" when it returns True, else the
\* ValueError it raises
validate_coordinates(x, y, crs) ==
    IF upper(crs) = EPSG4326
    THEN IF ~(-LonMax <= x /\ x <= LonMax) THEN "Longitude out of bounds"
         ELSE IF ~(-LatMax <= y /\ y <= LatMax) THEN "Latitude out of bounds"
         ELSE ""
    ELSE ""

Ok(g, bb, pts) == [err |-> "", row |-> 0, geom |-> Some(g), is_bbox |-> bb, pts |-> pts]
Raise(msg, row) == [err |-> msg, row |-> row, geom |-> None, is_bbox |-> FALSE, pts |-> <<>>]

\* the CSV branch of build_query_geometry, on the file f the path names
build_from_csv(a, f) ==
    IF ~f.exists THEN Raise("CSV file not found", 0)
    ELSE IF ~f.readable THEN Raise("Error reading CSV", 0)
    ELSE IF f.rows = <<>> THEN Raise("CSV file is empty", 0)
    ELSE
    LET xcol == IF Truthy(a.csvx) THEN a.csvx
                ELSE DetectColumn(f, {c_lon, c_longitude, c_x, c_lng})
        ycol == IF Truthy(a.csvy) THEN a.csvy
                ELSE DetectColumn(f, {c_lat, c_latitude, c_y})
    IN  IF xcol = None \/ ycol = None THEN Raise("Couldn't find lon/lat columns in CSV", 0)
        ELSE
        LET xi == ColIndex(f, Val(xcol))
            yi == ColIndex(f, Val(ycol))
        IN  IF xi = None \/ yi = None THEN Raise("KeyError", 0)
            ELSE
            LET X(k) == f.rows[k][Val(xi)]
                Y(k) == f.rows[k][Val(yi)]
                bad(k) == \/ X(k) = None \/ Y(k) = None
                          \/ validate_coordinates(Val(X(k)), Val(Y(k)), a.input_crs) # ""
                B == {k \in 1..Len(f.rows) : bad(k)}
            IN  IF B # {}
                THEN LET k == CHOOSE j \in B : \A m \in B : j <= m
                     IN  IF X(k) = None \/ Y(k) = None
                         THEN Raise("Missing coordinates at row", k)
                         ELSE Raise("Invalid coordinates at row", k)
                ELSE
                LET pts == [k \in 1..Len(f.rows) |-> <<Val(X(k)), Val(Y(k))>>]
                IN  IF Len(pts) < 2
                    THEN Ok(PointBuffer(pts[1]), FALSE, pts)
                    ELSE Ok(convex_hull(pts), FALSE, pts)

\* the bbox branch with > for >=: a box of zero width or height is accepted
build_from_bbox_Strict(a) ==
    IF None \in {a.miny, a.maxx, a.maxy} THEN Raise("Must specify bbox bounds", 0)
    ELSE IF a.minx = None THEN Raise("TypeError", 0)
    ELSE
    LET v1 == validate_coordinates(Val(a.minx), Val(a.miny), a.input_crs)
        v2 == validate_coordinates(Val(a.maxx), Val(a.maxy), a.input_crs)
    IN  IF v1 # "" THEN Raise(v1, 0)
        ELSE IF v2 # "" THEN Raise(v2, 0)
        ELSE IF Val(a.minx) > Val(a.maxx) THEN Raise("minx must be less than maxx", 0)
        ELSE IF Val(a.miny) > Val(a.maxy) THEN Raise("miny must be less than maxy", 0)
        ELSE LET g == box(Val(a.minx), Val(a.miny), Val(a.maxx), Val(a.maxy))
             IN  Ok(IF a.buffer > 0 THEN buffer(g, a.buffer) ELSE g, TRUE, <<>>)

\* the bbox branch of build_query_geometry
build_from_bbox(a) ==
    IF None \in {a.miny, a.maxx, a.maxy} THEN Raise("Must specify bbox bounds", 0)
    ELSE IF a.minx = None THEN Raise("TypeError", 0)
    ELSE
    LET v1 == validate_coordinates(Val(a.minx), Val(a.miny), a.input_crs)
        v2 == validate_coordinates(Val(a.maxx), Val(a.maxy), a.input_crs)
    IN  IF v1 # "" THEN Raise(v1, 0)
        ELSE IF v2 # "" THEN Raise(v2, 0)
        ELSE IF Val(a.minx) >= Val(a.maxx) THEN Raise("minx must be less than maxx", 0)
        ELSE IF Val(a.miny) >= Val(a.maxy) THEN Raise("miny must be less than maxy", 0)
        ELSE LET g == box(Val(a.minx), Val(a.miny), Val(a.maxx), Val(a.maxy))
             IN  Ok(IF a.buffer > 0 THEN buffer(g, a.buffer) ELSE g, TRUE, <<>>)

\* build_query_geometry(args): the mode is decided by the truthiness of
\* args.csv alone
build_query_geometry(a, f) ==
    IF Truthy(a.csv) THEN build_from_csv(a, f) ELSE build_from_bbox(a)

\* ------------------------------------------------------- the tile index
\* tile footprints (in the index CRS) with the values of their name fields
rect(minx, miny, maxx, maxy) == [minx |-> minx, miny |-> miny, maxx |-> maxx, maxy |-> maxy]
Tiles ==
    {[name |-> n_b,  alt |-> n_B,  fp |-> rect(0, 0, 1, 1)],
     [name |-> n_ab, alt |-> n_a,  fp |-> rect(2, 2, 3, 3)],
     [name |-> n_b,  alt |-> n_c,  fp |-> rect(3, 0, 4, 1)]}

\* a record of the index under a schema: its geometry and its properties
Feature(t, schema) ==
    [geometry |-> t.fp,
     properties |-> [f \in SetOf(schema) |-> IF f = F_file2 THEN t.alt ELSE t.name]]

Index(crs, schema, ts) ==
    [crs |-> crs, schema |-> schema,
     records |-> [k \in 1..Len(ts) |-> Feature(ts[k], schema)]]

\* what the shapefile path may hold: indexes of up to MaxTiles records in
\* EPSG:2263 with a "File" field, and short ones with another field order,
\* without any file-name field, or without a CRS
Indexes ==
    {Index(Some(EPSG2263), <<F_ID, F_File, F_file2>>, ts) : ts \in SeqsOf(Tiles, 0, MaxTiles)}
    \cup {Index(Some(EPSG2263), <<F_file2, F_File>>, ts) : ts \in SeqsOf(Tiles, 0, 1)}
    \cup {Index(Some(EPSG2263), <<F_ID, F_afile, F_fil>>, ts) : ts \in SeqsOf(Tiles, 0, 1)}
    \cup {Index(None, <<F_ID, F_File>>, ts) : ts \in SeqsOf(Tiles, 0, 1)}

\* ------------------------------------------------------------ pyproj
\* CRS(...) of an identifier: the authority code, None when unresolvable
ResolveCRS(c) == IF upper(c) \in {EPSG4326, EPSG2263} THEN Some(upper(c)) ELSE None

\* linear units of the index CRS per degree of the input CRS
UnitsPerDegree == 2

\* Transformer.from_crs(src, dst).transform on one coordinate
Scale(from, to) == IF ResolveCRS(from) = ResolveCRS(to) THEN 1 ELSE UnitsPerDegree

\* shapely.ops.transform(transformer.transform, geom)
transform(k, g) ==
    IF g.kind = "box"
    THEN [g EXCEPT !.minx = k * @, !.miny = k * @, !.maxx = k * @, !.maxy = k * @,
                   !.r = k * @]
    ELSE [g EXCEPT !.pts = {<<k * p[1], k * p[2]>> : p \in @}]

\* the field search with "file" in f.lower() for f.lower().startswith("file")
Contains(s, p) == \E k \in 0..(Len(s) - Len(p)) : SubSeq(s, k + 1, k + Len(p)) = p
FindFileField_Contains(schema) ==
    LET ks == {k \in 1..Len(schema) : Contains(lower(schema[k]), FilePrefix)}
    IN  IF ks = {} THEN None ELSE Some(schema[CHOOSE k \in ks : \A j \in ks : k <= j])

\* next((f for f in src.schema["properties"] if f.lower().startswith("file")), None)
FindFileField(schema) ==
    LET ks == {k \in 1..Len(schema) : startswith(lower(schema[k]), FilePrefix)}
    IN  IF ks = {} THEN None ELSE Some(schema[CHOOSE k \in ks : \A j \in ks : k <= j])

\* ---------------------------------------------------------------- state
VARIABLES
    pc,             \* where main() is
    args,           \* the parsed command line
    exit_status,    \* the process exit status once it has ended
    err,            \* the message printed when the run ended early ("" if none)
    query_geom_ll,  \* the query geometry in the input CRS
    is_bbox,        \* the query came from a bounding box
    point_list,     \* the CSV points
    src,            \* the open index
    total_tiles,    \* len(src)
    query_geom,     \* the query geometry in the index CRS
    fld,            \* the file-name field
    nread,          \* records the scan loop has read and tested
    hits,           \* file names of the intersecting records, in index order
    geoms,          \* footprints of the intersecting records
    stats,          \* used, pct_used, cov, over and the printed summary rows
    map_state,      \* what became of the map generation
    warnings,       \* warnings printed
    printed,        \* the tile list printed under "Tiles:"
    outfile         \* what write_output wrote

vars == <<pc, args, exit_status, err, query_geom_ll, is_bbox, point_list, src,
          total_tiles, query_geom, fld, nread, hits, geoms, stats, map_state,
          warnings, printed, outfile>>

Init ==
    /\ pc = "parse_args"
    /\ args = None
    /\ exit_status = None
    /\ err = ""
    /\ query_geom_ll = None
    /\ is_bbox = FALSE
    /\ point_list = <<>>
    /\ src = None
    /\ total_tiles = 0
    /\ query_geom = None
    /\ fld = None
    /\ nread = 0
    /\ hits = <<>>
    /\ geoms = <<>>
    /\ stats = None
    /\ map_state = "none"
    /\ warnings = 0
    /\ printed = None
    /\ outfile = None

\* sys.exit(code) after printing msg, or an uncaught exception (status 1)
Exit(code, msg) ==
    /\ pc' = "exited"
    /\ exit_status' = Some(code)
    /\ err' = msg

\* args = parse_args(): argparse ends the process with status 2 on a usage
\* error
ParseArgs ==
    /\ pc = "parse_args"
    /\ \E argv \in Argvs :
        IF parse_args(argv) # ""
        THEN /\ Exit(2, parse_args(argv))
             /\ UNCHANGED args
        ELSE /\ args' = Some(argv)
             /\ pc' = "check_shp"
             /\ UNCHANGED <<exit_status, err>>
    /\ UNCHANGED <<query_geom_ll, is_bbox, point_list, src, total_tiles, query_geom,
                   fld, nread, hits, geoms, stats, map_state, warnings, printed, outfile>>

\* if not shp.exists(): sys.exit(1)
CheckShp ==
    /\ pc = "check_shp"
    /\ \E exists \in BOOLEAN :
        IF ~exists
        THEN Exit(1, "Shapefile not found")
        ELSE /\ pc' = "build"
             /\ UNCHANGED <<exit_status, err>>
    /\ UNCHANGED <<args, query_geom_ll, is_bbox, point_list, src, total_tiles,
                   query_geom, fld, nread, hits, geoms, stats, map_state, warnings,
                   printed, outfile>>

\* the file the --csv path names, when the CSV branch reads one
CsvChoices(a) ==
    IF Truthy(a.csv) THEN CsvFiles
    ELSE {[exists |-> FALSE, readable |-> FALSE, columns |-> <<>>, rows |-> <<>>]}

\* try: query_geom_ll, is_bbox, point_list = build_query_geometry(args)
\* except Exception: sys.exit(1)
BuildQueryGeometry ==
    /\ pc = "build"
    /\ \E f \in CsvChoices(Val(args)) :
        LET b == build_query_geometry(Val(args), f)
        IN  IF b.err # ""
            THEN /\ Exit(1, b.err)
                 /\ UNCHANGED <<query_geom_ll, is_bbox, point_list>>
            ELSE /\ query_geom_ll' = b.geom
                 /\ is_bbox' = b.is_bbox
                 /\ point_list' = b.pts
                 /\ pc' = "preview"
                 /\ UNCHANGED <<exit_status, err>>
    /\ UNCHANGED <<args, src, total_tiles, query_geom, fld, nread, hits, geoms, stats,
                   map_state, warnings, printed, outfile>>

\* if args.preview: print the geometry and return
Preview ==
    /\ pc = "preview"
    /\ \E preview \in BOOLEAN :
        IF preview
        THEN /\ pc' = "done"
             /\ exit_status' = Some(0)
        ELSE /\ pc' = "open"
             /\ UNCHANGED exit_status
    /\ UNCHANGED <<args, err, query_geom_ll, is_bbox, point_list, src, total_tiles,
                   query_geom, fld, nread, hits, geoms, stats, map_state, warnings,
                   printed, outfile>>

\* with fiona.open(str(shp)) as src: total_tiles = len(src); pj = CRS(src.crs)
\* (an index without a resolvable CRS raises, uncaught)
OpenIndex ==
    /\ pc = "open"
    /\ \E idx \in Indexes :
        /\ src' = Some(idx)
        /\ total_tiles' = Len(idx.records)
        /\ IF idx.crs = None \/ ResolveCRS(Val(idx.crs)) = None
           THEN Exit(1, "CRSError")
           ELSE /\ pc' = "reproject"
                /\ UNCHANGED <<exit_status, err>>
    /\ UNCHANGED <<args, query_geom_ll, is_bbox, point_list, query_geom, fld, nread,
                   hits, geoms, stats, map_state, warnings, printed, outfile>>

\* transformer = Transformer.from_crs(args.input_crs, src.crs, always_xy=True)
\* query_geom = transform(transformer.transform, query_geom_ll)
Reproject ==
    /\ pc = "reproject"
    /\ IF ResolveCRS(Val(args).input_crs) = None
       THEN /\ Exit(1, "CRSError")
            /\ UNCHANGED query_geom
       ELSE /\ query_geom' = Some(transform(Scale(Val(args).input_crs, Val(Val(src).crs)),
                                            Val(query_geom_ll)))
            /\ pc' = "find_field"
            /\ UNCHANGED <<exit_status, err>>
    /\ UNCHANGED <<args, query_geom_ll, is_bbox, point_list, src, total_tiles, fld,
                   nread, hits, geoms, stats, map_state, warnings, printed, outfile>>

\* the field looked up inside the loop: the first record is read before a
\* missing field is noticed
ResolveField_InLoop ==
    /\ pc = "find_field"
    /\ fld' = FindFileField(Val(src).schema)
    /\ IF fld' = None
       THEN /\ Exit(1, "No file-name field in schema")
            /\ nread' = IF Len(Val(src).records) = 0 THEN 0 ELSE 1
       ELSE /\ pc' = "scan"
            /\ UNCHANGED <<exit_status, err, nread>>
    /\ UNCHANGED <<args, query_geom_ll, is_bbox, point_list, src, total_tiles,
                   query_geom, hits, geoms, stats, map_state, warnings, printed,
                   outfile>>

\* fld = next(...); if not fld: sys.exit(1)
ResolveField ==
    /\ pc = "find_field"
    /\ fld' = FindFileField(Val(src).schema)
    /\ IF fld' = None
       THEN Exit(1, "No file-name field in schema")
       ELSE /\ pc' = "scan"
            /\ UNCHANGED <<exit_status, err>>
    /\ UNCHANGED <<args, query_geom_ll, is_bbox, point_list, src, total_tiles,
                   query_geom, nread, hits, geoms, stats, map_state, warnings, printed,
                   outfile>>

\* the loop with a break after the first hit
ScanStep_StopAtFirstHit ==
    /\ pc = "scan"
    /\ nread < Len(Val(src).records)
    /\ LET feat == Val(src).records[nread + 1]
           g == feat.geometry
       IN  IF intersects(g, Val(query_geom))
           THEN /\ hits' = Append(hits, feat.properties[Val(fld)])
                /\ geoms' = Append(geoms, g)
                /\ nread' = Len(Val(src).records)
           ELSE /\ UNCHANGED <<hits, geoms>>
                /\ nread' = nread + 1
    /\ UNCHANGED <<pc, args, exit_status, err, query_geom_ll, is_bbox, point_list, src,
                   total_tiles, query_geom, fld, stats, map_state, warnings, printed,
                   outfile>>

\* one iteration of: for feat in src: g = shape(feat["geometry"]);
\* if g.intersects(query_geom): hits.append(...); geoms.append(g)
ScanStep ==
    /\ pc = "scan"
    /\ nread < Len(Val(src).records)
    /\ LET feat == Val(src).records[nread + 1]
           g == feat.geometry
       IN  IF intersects(g, Val(query_geom))
           THEN /\ hits' = Append(hits, feat.properties[Val(fld)])
                /\ geoms' = Append(geoms, g)
           ELSE UNCHANGED <<hits, geoms>>
    /\ nread' = nread + 1
    /\ UNCHANGED <<pc, args, exit_status, err, query_geom_ll, is_bbox, point_list, src,
                   total_tiles, query_geom, fld, stats, map_state, warnings, printed,
                   outfile>>

\* the zero-match exit with sys.exit(1)
CheckHits_ExitFailure ==
    /\ pc = "scan"
    /\ nread = Len(Val(src).records)
    /\ IF hits = <<>>
       THEN Exit(1, "No tiles found.")
       ELSE /\ pc' = "stats"
            /\ UNCHANGED <<exit_status, err>>
    /\ UNCHANGED <<args, query_geom_ll, is_bbox, point_list, src, total_tiles,
                   query_geom, fld, nread, hits, geoms, stats, map_state, warnings,
                   printed, outfile>>

\* main() without the zero-match exit
CheckHits_NoGuard ==
    /\ pc = "scan"
    /\ nread = Len(Val(src).records)
    /\ pc' = "stats"
    /\ UNCHANGED <<args, exit_status, err, query_geom_ll, is_bbox, point_list, src,
                   total_tiles, query_geom, fld, nread, hits, geoms, stats, map_state,
                   warnings, printed, outfile>>

\* the loop is exhausted; if not hits: print "No tiles found."; sys.exit(0)
CheckHits ==
    /\ pc = "scan"
    /\ nread = Len(Val(src).records)
    /\ IF hits = <<>>
       THEN Exit(0, "No tiles found.")
       ELSE /\ pc' = "stats"
            /\ UNCHANGED <<exit_status, err>>
    /\ UNCHANGED <<args, query_geom_ll, is_bbox, point_list, src, total_tiles,
                   query_geom, fld, nread, hits, geoms, stats, map_state, warnings,
                   printed, outfile>>

\* a / b * 100 kept exact, as <<numerator, denominator>>
Percent(a, b) == <<100 * a, b>>

\* the summary rows main() prints
SummaryRows(bbox, partial) ==
    <<"CRS", "Total tiles in index", "Tiles needed", "% of index used">>
    \o (IF bbox THEN <<"BBox km2", "BBox mi2", "Tiles km2", "Tiles mi2", "Coverage", "Overrun">>
        ELSE <<>>)
    \o (IF bbox /\ partial THEN <<"WARNING">> ELSE <<>>)

\* the area metrics, cov, over, used, pct_used and the printed summary; a
\* division by zero is an uncaught ZeroDivisionError.  Areas are in
\* thousandths of a square unit of the index CRS; only a bbox query reports
\* the area of its geometry.
ComputeStats ==
    /\ pc = "stats"
    /\ LET area_q  == IF is_bbox THEN area(Val(query_geom)) ELSE 0
           area_t  == 1000 * union_area(geoms)
           used    == Cardinality(SetOf(hits))
       IN  IF (is_bbox /\ area_q = 0) \/ total_tiles = 0
           THEN /\ Exit(1, "ZeroDivisionError")
                /\ UNCHANGED stats
           ELSE /\ stats' = Some(
                      [used |-> used,
                       pct_used |-> Percent(used, total_tiles),
                       area_q |-> area_q,
                       area_t |-> area_t,
                       cov |-> IF is_bbox THEN Some(Percent(area_t, area_q)) ELSE None,
                       over |-> IF is_bbox
                                THEN Some(<<100 * area_t - 100 * area_q, area_q>>)
                                ELSE None,
                       rows |-> SummaryRows(is_bbox, is_bbox /\ area_t < area_q)])
                /\ pc' = "map"
                /\ UNCHANGED <<exit_status, err>>
    /\ UNCHANGED <<args, query_geom_ll, is_bbox, point_list, src, total_tiles,
                   query_geom, fld, nread, hits, geoms, map_state, warnings, printed,
                   outfile>>

\* what reading the index with geopandas and generate_coverage_map can do:
\* save the map, fail inside generate_coverage_map (caught there, warning),
\* or fail in main's try block (caught there, warning)
MapOutcomes == {"saved", "render_failed", "read_failed"}

\* the map generation without the try/except: a failure is uncaught
GenerateMap_Unprotected ==
    /\ pc = "map"
    /\ \E no_map \in BOOLEAN, HAS_MAPPING \in BOOLEAN, outcome \in MapOutcomes :
        IF ~no_map /\ HAS_MAPPING
        THEN /\ map_state' = outcome
             /\ UNCHANGED warnings
             /\ IF outcome = "saved"
                THEN /\ pc' = "write"
                     /\ UNCHANGED <<exit_status, err>>
                ELSE Exit(1, "map generation failed")
        ELSE /\ map_state' = IF no_map THEN "skipped" ELSE "unavailable"
             /\ pc' = "write"
             /\ UNCHANGED <<warnings, exit_status, err>>
    /\ UNCHANGED <<args, query_geom_ll, is_bbox, point_list, src, total_tiles,
                   query_geom, fld, nread, hits, geoms, stats, printed, outfile>>

\* if not args.no_map and HAS_MAPPING: try: ... generate_coverage_map(...)
\* except Exception: warning
GenerateMap ==
    /\ pc = "map"
    /\ \E no_map \in BOOLEAN, HAS_MAPPING \in BOOLEAN, outcome \in MapOutcomes :
        IF ~no_map /\ HAS_MAPPING
        THEN /\ map_state' = outcome
             /\ warnings' = IF outcome = "saved" THEN warnings ELSE warnings + 1
        ELSE /\ map_state' = IF no_map THEN "skipped" ELSE "unavailable"
             /\ UNCHANGED warnings
    /\ pc' = "write"
    /\ UNCHANGED <<args, exit_status, err, query_geom_ll, is_bbox, point_list, src,
                   total_tiles, query_geom, fld, nread, hits, geoms, stats, printed,
                   outfile>>

\* the metadata with the coverage keys added in either mode
Metadata_Always(total, st, crs, bbox) ==
    [total_tiles_in_index |-> total, tiles_used |-> st.used,
     percent_index_used |-> st.pct_used, crs |-> crs,
     query_type |-> IF bbox THEN "bbox" ELSE "csv_points",
     bbox_km2 |-> st.area_q, bbox_mi2 |-> st.area_q,
     tiles_km2 |-> st.area_t, tiles_mi2 |-> st.area_t,
     coverage_percent |-> st.cov, overrun_percent |-> st.over]

\* the metadata main() passes to write_output; the km2 and mi2 entries carry
\* the area they are computed from (they are that area times FT2_TO_M2 / 1e6
\* and FT2_TO_MI2), the percentages are exact, not rounded
Metadata(total, st, crs, bbox) ==
    IF bbox
    THEN [total_tiles_in_index |-> total, tiles_used |-> st.used,
          percent_index_used |-> st.pct_used, crs |-> crs, query_type |-> "bbox",
          bbox_km2 |-> st.area_q, bbox_mi2 |-> st.area_q,
          tiles_km2 |-> st.area_t, tiles_mi2 |-> st.area_t,
          coverage_percent |-> Val(st.cov), overrun_percent |-> Val(st.over)]
    ELSE [total_tiles_in_index |-> total, tiles_used |-> st.used,
          percent_index_used |-> st.pct_used, crs |-> crs, query_type |-> "csv_points"]

\* write_output(tiles, filepath, format_type, **metadata): the file written
write_output(tiles, format_type, metadata) ==
    IF format_type = "txt" THEN [format |-> "txt", tiles |-> tiles]
    ELSE IF format_type = "json"
    THEN [format |-> "json", tiles |-> tiles, count |-> Len(tiles), metadata |-> metadata]
    ELSE [format |-> "csv", header |-> "filename", tiles |-> tiles]

\* the tiles listed and written as found: uniq = hits
WriteOutput_DiscoveryOrder ==
    /\ pc = "write"
    /\ LET uniq == hits
           metadata == Metadata(total_tiles, Val(stats), Val(Val(src).crs), is_bbox)
       IN  /\ printed' = Some(uniq)
           /\ \E format \in {"txt", "json", "csv"} :
                outfile' = Some(write_output(uniq, format, metadata))
    /\ pc' = "done"
    /\ exit_status' = Some(0)
    /\ UNCHANGED <<args, err, query_geom_ll, is_bbox, point_list, src, total_tiles,
                   query_geom, fld, nread, hits, geoms, stats, map_state, warnings>>

\* uniq = sorted(set(hits)); print the tiles; write_output(uniq, ...)
WriteOutput ==
    /\ pc = "write"
    /\ LET uniq == sorted(SetOf(hits))
           metadata == Metadata(total_tiles, Val(stats), Val(Val(src).crs), is_bbox)
       IN  /\ printed' = Some(uniq)
           /\ \E format \in {"txt", "json", "csv"} :
                outfile' = Some(write_output(uniq, format, metadata))
    /\ pc' = "done"
    /\ exit_status' = Some(0)
    /\ UNCHANGED <<args, err, query_geom_ll, is_bbox, point_list, src, total_tiles,
                   query_geom, fld, nread, hits, geoms, stats, map_state, warnings>>

Next ==
    \/ ParseArgs
    \/ CheckShp
    \/ BuildQueryGeometry
    \/ Preview
    \/ OpenIndex
    \/ Reproject
    \/ ResolveField
    \/ ScanStep
    \/ CheckHits
    \/ ComputeStats
    \/ GenerateMap
    \/ WriteOutput

Spec == Init /\ [][Next]_vars

\* ================================================================ claims
Records == Val(src).records
RunEnded == pc \in {"done", "exited"}

\* the scan has gone through the whole index
ScanFinished == src # None /\ query_geom # None /\ fld # None /\ nread = Len(Records)

\* a run that ended after a scan that matched nothing
ZeroMatch == RunEnded /\ ScanFinished /\ hits = <<>>

NoFileField(schema) == \A k \in 1..Len(schema) : ~startswith(lower(schema[k]), FilePrefix)

\* C2 as stated: a schema without a field starting with "file" fails the
\* run before the query geometry is built or reprojected.
C2_Original ==
    err = "No file-name field in schema" => query_geom_ll = None /\ query_geom = None

\* C2 amended: a schema without a field starting with "file" fails the run
\* with status 1 after the query geometry has been built and reprojected
\* and before any record is read or tested; no record of such an index is
\* ever read.
C2_SchemaFailureBeforeScan ==
    /\ err = "No file-name field in schema" =>
        /\ exit_status = Some(1)
        /\ NoFileField(Val(src).schema)
        /\ query_geom_ll # None
        /\ query_geom # None
        /\ nread = 0
        /\ hits = <<>>
    /\ (src # None /\ NoFileField(Val(src).schema)) => (nread = 0 /\ pc # "scan")

C2_Witness == err = "No file-name field in schema" /\ Len(Records) = 1

\* C3: the printed and written tile list is strictly ascending in string
\* order (so without duplicates) and holds exactly the file names of the
\* intersecting records.
C3_TilesSortedDeduplicated ==
    printed # None =>
        LET u == Val(printed)
        IN  /\ \A i \in 1..Len(u), j \in 1..Len(u) : i < j => StrLess(u[i], u[j])
            /\ SetOf(u) = {Records[k].properties[Val(fld)] :
                             k \in {m \in 1..Len(Records) :
                                      intersects(Records[m].geometry, Val(query_geom))}}
            /\ outfile # None
            /\ Val(outfile).tiles = u

\* three hits, found as "b", "ab", "b"
C3_Witness == pc = "done" /\ outfile # None /\ hits = <<n_b, n_ab, n_b>>

\* a run that went through the index and ended with success
CompletedQuery == RunEnded /\ ScanFinished /\ exit_status = Some(0)

InvalidBoundsMsgs == {"minx must be less than maxx", "miny must be less than maxy"}
OutOfRangeMsgs == {"Longitude out of bounds", "Latitude out of bounds"}

\* a bbox invocation with all four bounds whose box is reversed or empty
DegenerateBbox(a) ==
    /\ a.csv = None
    /\ None \notin {a.minx, a.miny, a.maxx, a.maxy}
    /\ (Val(a.minx) >= Val(a.maxx) \/ Val(a.miny) >= Val(a.maxy))

\* every bound is in the range validate_coordinates accepts for the CRS
BoundsInRange(a) ==
    \/ a.input_crs \notin {EPSG4326, epsg4326}
    \/ /\ {Val(a.minx), Val(a.maxx)} \subseteq -180..180
       /\ {Val(a.miny), Val(a.maxy)} \subseteq -90..90

\* C5 as stated: building the geometry of a bbox with minx >= maxx or
\* miny >= maxy fails with InvalidBounds and produces no geometry, also
\* when bounds are outside the valid range of the input CRS.
C5_Original ==
    [][(pc = "build" /\ DegenerateBbox(Val(args))) =>
          (err' \in InvalidBoundsMsgs /\ query_geom_ll' = None)]_vars

\* C5 amended: building the geometry of a bbox with minx >= maxx or
\* miny >= maxy always fails with status 1 and produces no geometry; the
\* error is InvalidBounds when all bounds are in the valid range of the
\* input CRS, and the out-of-range error of validate_coordinates otherwise.
C5_DegenerateBboxRejected ==
    [][(pc = "build" /\ DegenerateBbox(Val(args))) =>
          /\ query_geom_ll' = None
          /\ pc' = "exited"
          /\ exit_status' = Some(1)
          /\ IF BoundsInRange(Val(args))
             THEN err' \in InvalidBoundsMsgs
             ELSE err' \in OutOfRangeMsgs]_vars

C5_Witness ==
    /\ pc = "exited"
    /\ err = "miny must be less than maxy"
    /\ DegenerateBbox(Val(args))
    /\ Val(args).miny = Val(args).maxy

\* C6: the map generation step never ends the run and changes nothing of
\* the query's result; whatever it does (saved, failed in either place,
\* skipped, unavailable) the run goes on to write the output and ends with
\* status 0, and a failure leaves exactly one warning.
C6_MapNeverAborts ==
    /\ [][pc = "map" =>
            /\ pc' = "write"
            /\ UNCHANGED <<hits, geoms, stats, total_tiles, is_bbox, exit_status, err,
                           printed, outfile>>]_vars
    /\ [](map_state \in {"render_failed", "read_failed"} => warnings = 1)
    /\ []((RunEnded /\ map_state # "none") =>
            /\ pc = "done"
            /\ exit_status = Some(0)
            /\ outfile # None
            /\ Val(outfile).tiles = sorted(SetOf(hits)))

C6_Witness == pc = "done" /\ map_state = "read_failed" /\ outfile # None /\ warnings = 1

\* the first n records that intersect the reprojected query geometry
Matching(n) ==
    LET Test(f) == intersects(f.geometry, Val(query_geom))
    IN  IF n = 0 THEN <<>> ELSE SelectSeq(SubSeq(Records, 1, n), Test)

\* C7: the scan reads the records once, in order; after n records hits and
\* geoms hold exactly the names and footprints of those of the first n
\* records that intersect the query geometry; the steps after the scan
\* see the whole index; total_tiles is the number of records.
C7_ScanExact ==
    src # None =>
        /\ total_tiles = Len(Records)
        /\ nread <= Len(Records)
        /\ LET m == Matching(nread)
           IN  /\ geoms = [k \in 1..Len(m) |-> m[k].geometry]
               /\ hits = [k \in 1..Len(m) |-> m[k].properties[Val(fld)]]
        /\ (pc \in {"stats", "map", "write", "done"} \/ err = "No tiles found.") =>
              nread = Len(Records)

C7_Witness == pc = "stats" /\ Len(Records) = 3 /\ Len(geoms) = 2 /\ geoms[1] = Records[2].geometry

\* the messages of the error kinds InvalidBounds, InvalidInput,
\* SchemaFieldNotFound, UnsupportedCRS, IndexNotFound and PointFileNotFound
NamedErrors ==
    InvalidBoundsMsgs \cup OutOfRangeMsgs
    \cup {"CSV file is empty", "Missing coordinates at row", "Invalid coordinates at row",
          "No file-name field in schema", "CRSError", "Shapefile not found",
          "CSV file not found"}

\* C8: a run that ends in one of the named errors has read and tested no
\* record and ends with a non-zero status.
C8_ErrorsBeforeScan ==
    err \in NamedErrors =>
        /\ pc = "exited"
        /\ exit_status # None
        /\ Val(exit_status) # 0
        /\ nread = 0
        /\ hits = <<>>
        /\ geoms = <<>>

C8_Witness == err = "CRSError" /\ query_geom_ll # None /\ Len(Records) = 3 /\ exit_status = Some(1)

\* C9: a query geometry is built only for an invocation that gives a point
\* file and no --minx, or no point file and all four bounds; the mode is
\* the one given.
C9_ExactlyOneMode ==
    query_geom_ll # None =>
        LET a == Val(args)
        IN  /\ \/ a.csv # None /\ a.minx = None
               \/ a.csv = None /\ None \notin {a.minx, a.miny, a.maxx, a.maxy}
            /\ is_bbox <=> a.csv = None

C9_Witness == query_geom_ll # None /\ ~is_bbox /\ Val(args).maxx # None

\* C10: from the statistics step on, 1 <= used <= total_tiles for used the
\* number of distinct matched names, pct_used is in (0, 100], and no run
\* ends in a division by zero.
C10_UsedWithinIndex ==
    /\ err # "ZeroDivisionError"
    /\ (pc \in {"stats", "map", "write"} \/ stats # None) =>
        LET used == Cardinality(SetOf(hits))
        IN  /\ 1 <= used
            /\ used <= total_tiles
            /\ stats # None =>
                 /\ Val(stats).used = used
                 /\ Val(stats).pct_used = <<100 * used, total_tiles>>
                 /\ 0 < Val(stats).pct_used[1]
                 /\ Val(stats).pct_used[1] <= 100 * Val(stats).pct_used[2]

C10_Witness ==
    /\ pc = "map"
    /\ total_tiles = 3
    /\ Val(stats).used = 1
    /\ Len(hits) = 2
====
